---- MODULE Spec2Model ----
(***************************************************************************)
(* A model of the software rasterizer: Framebuffer (framebuffer.rs),       *)
(* Camera (camera.rs), Color (color.rs), line() (line.rs), triangle()      *)
(* (triangle.rs) and vertex_shader() (shaders.rs, vertex.rs).              *)
(*                                                                         *)
(* f32 values are modelled as exact rationals plus the IEEE specials:      *)
(*   [k |-> "fin", n |-> num, d |-> den]  (den > 0, lowest terms)           *)
(*   [k |-> "inf", n |-> +1 or -1, d |-> 1]                                 *)
(*   [k |-> "nan", n |-> 0, d |-> 1]                                        *)
(* All inputs are small integers or dyadic fractions, for which the f32    *)
(* sums and products the code computes are exact; the rounding of an f32   *)
(* quotient is monotone and keeps 0 and 1, so the comparisons the code     *)
(* makes on quotients are the comparisons of the exact quotients.          *)
(***************************************************************************)
EXTENDS Integers, Sequences, FiniteSets, TLC

VARIABLES
    \* Framebuffer (framebuffer.rs:2-15)
    width, height, buffer, zbuffer, background_color, current_color,
    \* the last Framebuffer call and the number of calls made
    call, nops,
    \* Camera (camera.rs:5-14) and the most recent Camera calls, oldest first
    eye, center, up, has_changed, cam_log,
    \* Color operations: the operands, the operation applied and its result
    col_a, col_b, col_op, col_out,
    \* line(): arguments, loop state, emitted fragments
    l_start, l_end, l_pc, x0, y0, err, l_frags,
    \* triangle(): arguments, emitted fragments
    t_v1, t_v2, t_v3, t_pc, t_frags,
    \* vertex_shader(): the vertex and the model matrix passed, the vertex returned
    vs_vertex, vs_model, vs_pc, vs_out,
    \* the color the last new() or clear() left in every pixel, and the in-range
    \* point() calls made since (recorded under SpecFbHistory only)
    fb_hist

fb_vars   == <<width, height, buffer, zbuffer, background_color, current_color, call, nops>>
cam_vars  == <<eye, center, up, has_changed, cam_log>>
col_vars  == <<col_a, col_b, col_op, col_out>>
line_vars == <<l_start, l_end, l_pc, x0, y0, err, l_frags>>
tri_vars  == <<t_v1, t_v2, t_v3, t_pc, t_frags>>
vs_vars   == <<vs_vertex, vs_model, vs_pc, vs_out>>
hist_vars == <<fb_hist>>
vars == <<fb_vars, cam_vars, col_vars, line_vars, tri_vars, vs_vars, hist_vars>>

----------------------------------------------------------------------------
(* f32 values *)

Abs(i) == IF i < 0 THEN -i ELSE i

RECURSIVE Gcd(_, _)
Gcd(a, b) == IF b = 0 THEN a ELSE Gcd(b, a % b)

\* the finite f32 value n/d (d # 0), in lowest terms with a positive denominator
Rat(n, d) ==
    IF d = 1 THEN [k |-> "fin", n |-> n, d |-> 1]
    ELSE LET g == Gcd(Abs(n), Abs(d))
             s == IF d < 0 THEN -1 ELSE 1
         IN  [k |-> "fin", n |-> (s * n) \div g, d |-> (s * d) \div g]

Fin(i) == [k |-> "fin", n |-> i, d |-> 1]
INFINITY == [k |-> "inf", n |-> 1, d |-> 1]
NEG_INFINITY == [k |-> "inf", n |-> -1, d |-> 1]
NAN == [k |-> "nan", n |-> 0, d |-> 1]

\* a < b on f32: false as soon as one side is NaN
FLt(a, b) ==
    /\ a.k # "nan"
    /\ b.k # "nan"
    /\ CASE a.k = "inf" /\ a.n = 1 -> FALSE
         [] a.k = "inf"            -> ~(b.k = "inf" /\ b.n = -1)
         [] b.k = "inf"            -> b.n = 1
         [] OTHER                  -> a.n * b.d < b.n * a.d

\* a > b on f32
FGt(a, b) == FLt(b, a)

\* a <= b and a >= b on f32
FLe(a, b) == a.k # "nan" /\ b.k # "nan" /\ ~FLt(b, a)
FGe(a, b) == FLe(b, a)

\* f32 arithmetic.  The sign of a zero is not tracked: x / 0 with x # 0 is the
\* infinity of x's sign (it is the opposite infinity when the zero is -0.0).
FNeg(a) == IF a.k = "nan" THEN a ELSE [a EXCEPT !.n = -a.n]

FAdd(a, b) ==
    IF a.k = "nan" \/ b.k = "nan" THEN NAN
    ELSE IF a.k = "inf" /\ b.k = "inf" THEN (IF a.n = b.n THEN a ELSE NAN)
    ELSE IF a.k = "inf" THEN a
    ELSE IF b.k = "inf" THEN b
    ELSE Rat(a.n * b.d + b.n * a.d, a.d * b.d)

FSub(a, b) == FAdd(a, FNeg(b))

Sign(i) == IF i < 0 THEN -1 ELSE IF i > 0 THEN 1 ELSE 0

FMul(a, b) ==
    IF a.k = "nan" \/ b.k = "nan" THEN NAN
    ELSE IF a.k = "inf" \/ b.k = "inf"
         THEN (IF a.n = 0 \/ b.n = 0 THEN NAN
               ELSE [k |-> "inf", n |-> Sign(a.n) * Sign(b.n), d |-> 1])
    ELSE Rat(a.n * b.n, a.d * b.d)

FDiv(a, b) ==
    IF a.k = "nan" \/ b.k = "nan" THEN NAN
    ELSE IF a.k = "inf"
         THEN (IF b.k = "inf" THEN NAN
               ELSE [k |-> "inf", n |-> a.n * (IF b.n < 0 THEN -1 ELSE 1), d |-> 1])
    ELSE IF b.k = "inf" THEN Fin(0)
    ELSE IF b.n = 0
         THEN (IF a.n = 0 THEN NAN ELSE [k |-> "inf", n |-> Sign(a.n), d |-> 1])
    ELSE Rat(a.n * b.d, a.d * b.n)

\* f32::min and f32::max: a NaN operand is ignored
FMin(a, b) == IF a.k = "nan" THEN b ELSE IF b.k = "nan" THEN a ELSE IF FLt(b, a) THEN b ELSE a
FMax(a, b) == IF a.k = "nan" THEN b ELSE IF b.k = "nan" THEN a ELSE IF FGt(b, a) THEN b ELSE a

I32_MAX == 2147483647

\* integer floor and ceiling of n/d (d > 0)
FloorDiv(n, d) == n \div d
CeilDiv(n, d) == -((-n) \div d)

\* `f as i32`: truncates toward zero, saturates, NaN gives 0
AsI32(f) ==
    IF f.k = "nan" THEN 0
    ELSE IF f.k = "inf" THEN (IF f.n > 0 THEN I32_MAX ELSE -I32_MAX - 1)
    ELSE IF f.n >= 0 THEN FloorDiv(f.n, f.d) ELSE CeilDiv(f.n, f.d)

\* f32::floor and f32::ceil
FFloor(f) == IF f.k = "fin" THEN Fin(FloorDiv(f.n, f.d)) ELSE f
FCeil(f) == IF f.k = "fin" THEN Fin(CeilDiv(f.n, f.d)) ELSE f

Vec3(x, y, z) == [x |-> x, y |-> y, z |-> z]

----------------------------------------------------------------------------
(* Framebuffer *)

MaxCells == 4
MaxDepth == 1
MaxOps == 3

BLACK == 0
WHITE == 16777215

\* the u32 colors the callers pass to set_background_color / set_current_color
ColorVals == {WHITE, 255}

\* the depths the callers pass to point()
DepthVals == {Fin(i) : i \in 0..MaxDepth} \cup {INFINITY, NEG_INFINITY, NAN}

\* the record of a Framebuffer call: the method, its arguments and whether
\* it panicked (an index past the end of a Vec)
FbCall(op, x, y, depth, color, panicked) ==
    [op |-> op, x |-> x, y |-> y, depth |-> depth, color |-> color, panicked |-> panicked]

\* Framebuffer::new(width, height): buffers are indexed 0 .. width*height-1
FbNew(w, h) ==
    /\ width = w
    /\ height = h
    /\ buffer = [i \in 0..(w * h - 1) |-> 0]
    /\ zbuffer = [i \in 0..(w * h - 1) |-> INFINITY]
    /\ background_color = BLACK
    /\ current_color = WHITE
    /\ call = FbCall("new", 0, 0, NAN, 0, FALSE)
    /\ nops = 0

\* the depth clear() stores in every cell
ClearDepthZero == Fin(0)
ClearDepth == INFINITY

\* Framebuffer::clear
Clear ==
    /\ nops < MaxOps
    /\ buffer' = [i \in DOMAIN buffer |-> background_color]
    /\ zbuffer' = [i \in DOMAIN zbuffer |-> ClearDepth]
    /\ call' = FbCall("clear", 0, 0, NAN, 0, FALSE)
    /\ nops' = nops + 1
    /\ UNCHANGED <<width, height, background_color, current_color>>

\* the depth test of point(): self.zbuffer[index] > depth
DepthTestGe(stored, depth) == FGe(stored, depth)
DepthTestNotLe(stored, depth) == ~FLe(stored, depth)
DepthTest(stored, depth) == FGt(stored, depth)

\* the bounds check of point(): x < self.width && y < self.height
InBoundsYOnly(x, y) == y < height
InBounds(x, y) == x < width /\ y < height

\* Framebuffer::point(x, y, depth)
Point(x, y, depth) ==
    /\ nops < MaxOps
    /\ IF InBounds(x, y)
       THEN LET index == y * width + x IN
            IF index \notin DOMAIN zbuffer
            THEN /\ call' = FbCall("point", x, y, depth, 0, TRUE)
                 /\ UNCHANGED <<buffer, zbuffer>>
            ELSE /\ call' = FbCall("point", x, y, depth, 0, FALSE)
                 /\ IF DepthTest(zbuffer[index], depth)
                    THEN /\ buffer' = [buffer EXCEPT ![index] = current_color]
                         /\ zbuffer' = [zbuffer EXCEPT ![index] = depth]
                    ELSE UNCHANGED <<buffer, zbuffer>>
       ELSE /\ call' = FbCall("point", x, y, depth, 0, FALSE)
            /\ UNCHANGED <<buffer, zbuffer>>
    /\ nops' = nops + 1
    /\ UNCHANGED <<width, height, background_color, current_color>>

\* Framebuffer::set_background_color(color)
SetBackgroundColor(color) ==
    /\ nops < MaxOps
    /\ background_color' = color
    /\ call' = FbCall("set_background_color", 0, 0, NAN, color, FALSE)
    /\ nops' = nops + 1
    /\ UNCHANGED <<width, height, buffer, zbuffer, current_color>>

\* Framebuffer::set_current_color(color)
SetCurrentColor(color) ==
    /\ nops < MaxOps
    /\ current_color' = color
    /\ call' = FbCall("set_current_color", 0, 0, NAN, color, FALSE)
    /\ nops' = nops + 1
    /\ UNCHANGED <<width, height, buffer, zbuffer, background_color>>

FbIdle == FbNew(1, 1)

\* no point() call since new()
HistIdle == fb_hist = [base |-> BLACK, calls |-> <<>>]

----------------------------------------------------------------------------
(* Camera.  eye, center and up are 3-vectors of f32; the trigonometry of    *)
(* orbit and move_center and the normalisation of zoom are not computed:    *)
(* the vector each of them assigns is any vector of CamVecs.                *)

MaxCam == 1
MaxCamLog == 5

CamVecs == {<<x, 0, 0>> : x \in 0..MaxCam}
UpVecs == {<<0, 1, 0>>, <<0, 0, 1>>}

\* the record of a Camera call: the method and what it returned
\* (ret is FALSE for the methods that return nothing)
CamCall(op, ret) == [op |-> op, ret |-> ret]

\* the log with one more call, cut to the MaxCamLog most recent
Logged(c) ==
    LET l == Append(cam_log, c)
    IN  IF Len(l) > MaxCamLog THEN SubSeq(l, Len(l) - MaxCamLog + 1, Len(l)) ELSE l

\* Camera::new(eye, center, up)
CameraNew(e, c, u) ==
    /\ eye = e
    /\ center = c
    /\ up = u
    /\ has_changed = TRUE
    /\ cam_log = <<CamCall("new", FALSE)>>

\* the flag value every mutator stores
MutatorFlagKept == has_changed
MutatorFlag == TRUE

\* Camera::orbit(delta_yaw, delta_pitch): new_eye is the eye the spherical
\* coordinates give
Orbit(new_eye) ==
    /\ eye' = new_eye
    /\ has_changed' = MutatorFlag
    /\ cam_log' = Logged(CamCall("orbit", FALSE))
    /\ UNCHANGED <<center, up>>

\* Camera::zoom(delta): new_eye is eye + direction * delta
Zoom(new_eye) ==
    /\ eye' = new_eye
    /\ has_changed' = MutatorFlag
    /\ cam_log' = Logged(CamCall("zoom", FALSE))
    /\ UNCHANGED <<center, up>>

\* Camera::move_center(direction): new_center is eye + final_rotated * radius
MoveCenterMovingEye(new_center) ==
    /\ center' = new_center
    /\ eye' = new_center
    /\ has_changed' = MutatorFlag
    /\ cam_log' = Logged(CamCall("move_center", FALSE))
    /\ UNCHANGED up
MoveCenter(new_center) ==
    /\ center' = new_center
    /\ has_changed' = MutatorFlag
    /\ cam_log' = Logged(CamCall("move_center", FALSE))
    /\ UNCHANGED <<eye, up>>

\* the flag value check_if_changed stores when it finds the flag set
ConsumedFlagKept == has_changed
ConsumedFlag == FALSE

\* Camera::check_if_changed: returns the flag and clears it
CheckIfChanged ==
    /\ IF has_changed
       THEN /\ has_changed' = ConsumedFlag
            /\ cam_log' = Logged(CamCall("check_if_changed", TRUE))
       ELSE /\ has_changed' = has_changed
            /\ cam_log' = Logged(CamCall("check_if_changed", FALSE))
    /\ UNCHANGED <<eye, center, up>>

CamIdle == CameraNew(<<0, 0, 0>>, <<0, 0, 0>>, <<0, 1, 0>>)

----------------------------------------------------------------------------
(* Color: r, g, b are u8 *)

U8_MAX == 255

\* the channel values the operands are drawn from
ChanVals == {0, 10, 250, 255}
Colors == [r : ChanVals, g : ChanVals, b : ChanVals]

\* the interpolation factors passed to lerp (all exact in f32)
TVals == {Rat(-1, 1), Fin(0), Rat(1, 4), Rat(1, 2), Rat(3, 4), Fin(1), Fin(2),
          INFINITY, NEG_INFINITY, NAN}

Color(r, g, b) == [r |-> r, g |-> g, b |-> b]

\* u8::saturating_add
saturating_add_wrapping(a, b) == (a + b) % (U8_MAX + 1)
saturating_add(a, b) == IF a + b > U8_MAX THEN U8_MAX ELSE a + b

\* impl Add for Color
ColorAdd(a, b) ==
    Color(saturating_add(a.r, b.r), saturating_add(a.g, b.g), saturating_add(a.b, b.b))

\* (x as u16 + y as u16).min(255) as u8
AddMin(x, y) ==
    LET sum == (x + y) % 65536
        m == IF sum < 255 THEN sum ELSE 255
    IN  m % (U8_MAX + 1)

\* Color::blend_add
blend_add(a, b) == Color(AddMin(a.r, b.r), AddMin(a.g, b.g), AddMin(a.b, b.b))

\* f32::clamp(t, 0.0, 1.0): NaN stays NaN
Clamp01Unclamped(t) == t
Clamp01(t) ==
    IF t.k = "nan" THEN t
    ELSE IF FLt(t, Fin(0)) THEN Fin(0)
    ELSE IF FGt(t, Fin(1)) THEN Fin(1)
    ELSE t

\* f32::round of n/d (d > 0): nearest integer, halves away from zero
Round(n, d) ==
    IF n >= 0 THEN (2 * n + d) \div (2 * d) ELSE -((2 * (-n) + d) \div (2 * d))

\* `f as u8`: saturates at the ends of the range, NaN gives 0
AsU8(i) == IF i < 0 THEN 0 ELSE IF i > U8_MAX THEN U8_MAX ELSE i

\* one channel of lerp: (a + (b - a) * t).round() as u8, t already clamped
LerpChannel(a, b, t) ==
    IF t.k # "fin" THEN 0
    ELSE AsU8(Round(a * t.d + (b - a) * t.n, t.d))

\* Color::lerp
lerp(a, b, t) ==
    LET tc == Clamp01(t)
    IN  Color(LerpChannel(a.r, b.r, tc), LerpChannel(a.g, b.g, tc), LerpChannel(a.b, b.b, tc))

NoColor == Color(0, 0, 0)
ColCall(op, t) == [op |-> op, t |-> t]

ColInit(a, b) ==
    /\ col_a = a
    /\ col_b = b
    /\ col_op = ColCall("none", NAN)
    /\ col_out = NoColor

ColIdle == ColInit(NoColor, NoColor)

DoAdd ==
    /\ col_op.op = "none"
    /\ col_out' = ColorAdd(col_a, col_b)
    /\ col_op' = ColCall("add", NAN)
    /\ UNCHANGED <<col_a, col_b>>

DoBlendAdd ==
    /\ col_op.op = "none"
    /\ col_out' = blend_add(col_a, col_b)
    /\ col_op' = ColCall("blend_add", NAN)
    /\ UNCHANGED <<col_a, col_b>>

DoLerp(t) ==
    /\ col_op.op = "none"
    /\ col_out' = lerp(col_a, col_b, t)
    /\ col_op' = ColCall("lerp", t)
    /\ UNCHANGED <<col_a, col_b>>

\* the scalars passed to Color * f32 (all exact in f32, as are the products)
SVals == {NEG_INFINITY, Fin(-2), Rat(-1, 2), Fin(0), Rat(1, 4), Rat(1, 2), Fin(1),
          Rat(3, 2), Fin(2), Fin(26), INFINITY, NAN}

\* f32::clamp(p, 0.0, 255.0): NaN stays NaN
Clamp255(p) ==
    IF p.k = "nan" THEN p
    ELSE IF FLt(p, Fin(0)) THEN Fin(0)
    ELSE IF FGt(p, Fin(U8_MAX)) THEN Fin(U8_MAX)
    ELSE p

\* `f as u8` on an f32: truncates toward zero, saturates, NaN gives 0
F32AsU8(f) == AsU8(AsI32(f))

\* one channel of Color * scalar: (c as f32 * scalar).clamp(0.0, 255.0) as u8
MulChannelClampBefore(c, scalar) == F32AsU8(FMul(Fin(c), Clamp01(scalar)))
MulChannel(c, scalar) == F32AsU8(Clamp255(FMul(Fin(c), scalar)))

\* impl Mul<f32> for Color
ColorMul(a, scalar) ==
    Color(MulChannel(a.r, scalar), MulChannel(a.g, scalar), MulChannel(a.b, scalar))

DoMul(scalar) ==
    /\ col_op.op = "none"
    /\ col_out' = ColorMul(col_a, scalar)
    /\ col_op' = ColCall("mul", scalar)
    /\ UNCHANGED <<col_a, col_b>>

\* Color::is_black
is_black_any(c) == c.r = 0 \/ c.g = 0 \/ c.b = 0
is_black(c) == c.r = 0 /\ c.g = 0 /\ c.b = 0

\* Color::blend_normal
blend_normal(self, blend) == IF is_black(blend) THEN self ELSE blend

\* one channel of blend_multiply: ((x as f32 * y as f32) / 255.0) as u8
MultiplyChannelShift(x, y) == F32AsU8(FDiv(FMul(Fin(x), Fin(y)), Fin(U8_MAX + 1)))
MultiplyChannel(x, y) == F32AsU8(FDiv(FMul(Fin(x), Fin(y)), Fin(U8_MAX)))

\* Color::blend_multiply
blend_multiply(self, blend) ==
    Color(MultiplyChannel(self.r, blend.r), MultiplyChannel(self.g, blend.g),
          MultiplyChannel(self.b, blend.b))

DoBlendNormal ==
    /\ col_op.op = "none"
    /\ col_out' = blend_normal(col_a, col_b)
    /\ col_op' = ColCall("blend_normal", NAN)
    /\ UNCHANGED <<col_a, col_b>>

DoBlendMultiply ==
    /\ col_op.op = "none"
    /\ col_out' = blend_multiply(col_a, col_b)
    /\ col_op' = ColCall("blend_multiply", NAN)
    /\ UNCHANGED <<col_a, col_b>>

----------------------------------------------------------------------------
(* line(a, b): Bresenham between the truncated transformed positions *)

MaxLineHalf == 6
MaxLineZ == 1

\* the transformed positions of the two vertices: x and y in steps of 0.5,
\* from -1.5 up
LineCoords == {Rat(h, 2) : h \in (-3)..MaxLineHalf}
LineVerts == {Vec3(x, y, Fin(z)) : x \in LineCoords, y \in LineCoords, z \in 0..MaxLineZ}

NoVec == Vec3(Fin(0), Fin(0), Fin(0))

\* the pixel the loop starts from and the pixel it runs to
LineX0Rounded == Round(l_start.x.n, l_start.x.d)
LineX0 == AsI32(l_start.x)
LineY0 == AsI32(l_start.y)
LineX1 == AsI32(l_end.x)
LineY1 == AsI32(l_end.y)
LineDx == Abs(LineX1 - LineX0)
LineDy == Abs(LineY1 - LineY0)
LineSx == IF LineX0 < LineX1 THEN 1 ELSE -1
LineSy == IF LineY0 < LineY1 THEN 1 ELSE -1

\* the element of a one-element set
Only(S) == CHOOSE v \in S : TRUE

\* the depth of the fragment emitted at column x:
\* start.z + (end.z - start.z) * (x0 - start.x as i32) as f32 / (end.x - start.x)
\* (the product p, the span and the quotient q are each computed once)
LineZConst(x) == l_start.z
LineZ(x) ==
    Only({FAdd(l_start.z, q) :
            q \in {FDiv(p, span) :
                     p \in {FMul(FSub(l_end.z, l_start.z), Fin(x - AsI32(l_start.x)))},
                     span \in {FSub(l_end.x, l_start.x)}}})

\* Fragment::new(x, y, color, depth) as line() calls it
LineFragment(x, y, z) == [x |-> x, y |-> y, color |-> Color(255, 255, 255), depth |-> z]

LineInit(a, b) ==
    /\ l_start = a
    /\ l_end = b
    /\ l_pc = "entry"
    /\ x0 = 0
    /\ y0 = 0
    /\ err = 0
    /\ l_frags = <<>>

LineIdle == LineInit(NoVec, NoVec)

\* the initial error term: if dx > dy { dx / 2 } else { -dy / 2 }
LineErr0 == IF LineDx > LineDy THEN LineDx \div 2 ELSE -(LineDy \div 2)

\* line(): everything before the loop
LineEnter ==
    /\ l_pc = "entry"
    /\ x0' = LineX0
    /\ y0' = LineY0
    /\ err' = LineErr0
    /\ l_pc' = "loop"
    /\ UNCHANGED <<l_start, l_end, l_frags>>

\* line(): one iteration of the loop
LineStepBreakOnX ==
    /\ l_pc = "loop"
    /\ l_frags' = Append(l_frags, LineFragment(x0, y0, LineZ(x0)))
    /\ IF x0 = LineX1
       THEN /\ l_pc' = "done"
            /\ UNCHANGED <<x0, y0, err>>
       ELSE LET e2 == err
                stepx == e2 > -LineDx
                stepy == e2 < LineDy
            IN  /\ x0' = IF stepx THEN x0 + LineSx ELSE x0
                /\ y0' = IF stepy THEN y0 + LineSy ELSE y0
                /\ err' = err - (IF stepx THEN LineDy ELSE 0) + (IF stepy THEN LineDx ELSE 0)
                /\ l_pc' = "loop"
    /\ UNCHANGED <<l_start, l_end>>
LineStep ==
    /\ l_pc = "loop"
    /\ l_frags' = Append(l_frags, LineFragment(x0, y0, LineZ(x0)))
    /\ IF x0 = LineX1 /\ y0 = LineY1
       THEN /\ l_pc' = "done"
            /\ UNCHANGED <<x0, y0, err>>
       ELSE LET e2 == err
                stepx == e2 > -LineDx
                stepy == e2 < LineDy
            IN  /\ x0' = IF stepx THEN x0 + LineSx ELSE x0
                /\ y0' = IF stepy THEN y0 + LineSy ELSE y0
                /\ err' = err - (IF stepx THEN LineDy ELSE 0) + (IF stepy THEN LineDx ELSE 0)
                /\ l_pc' = "loop"
    /\ UNCHANGED <<l_start, l_end>>

----------------------------------------------------------------------------
(* triangle(v1, v2, v3).  A fragment records the pixel, the interpolated   *)
(* depth and the three weights it was accepted with; the normal, the       *)
(* intensity, the lit color and the interpolated object-space position     *)
(* are not modelled.                                                       *)

MaxTri == 4

\* the screen-space x and y of the three vertices, and the depths they carry
\* (a flat triangle and one with three different depths)
TriCoords == {Fin(i) : i \in 0..MaxTri}
TriDepths == {<<Fin(1), Fin(1), Fin(1)>>, <<Fin(0), Fin(1), Fin(2)>>}

\* twice the value of a finite f32 that is a multiple of 0.5
Twice(f) == (2 * f.n) \div f.d

\* edge_function(a, b, c), for finite coordinates that are multiples of 0.5:
\* (c.x - a.x) * (b.y - a.y) - (c.y - a.y) * (b.x - a.x), exact in f32
edge_function_swapped(a, b, c) ==
    Rat((Twice(c.x) - Twice(a.x)) * (Twice(b.y) - Twice(a.y))
        - (Twice(c.y) - Twice(a.y)) * (Twice(b.y) - Twice(a.y)), 4)
edge_function(a, b, c) ==
    Rat((Twice(c.x) - Twice(a.x)) * (Twice(b.y) - Twice(a.y))
        - (Twice(c.y) - Twice(a.y)) * (Twice(b.x) - Twice(a.x)), 4)

\* barycentric_coordinates(p, a, b, c, area)
barycentric_coordinates_abs(p, a, b, c, area) ==
    LET abs_area == IF FLt(area, Fin(0)) THEN FNeg(area) ELSE area
    IN  <<FDiv(edge_function(b, c, p), abs_area),
          FDiv(edge_function(c, a, p), abs_area),
          FDiv(edge_function(a, b, p), abs_area)>>
barycentric_coordinates(p, a, b, c, area) ==
    <<FDiv(edge_function(b, c, p), area),
      FDiv(edge_function(c, a, p), area),
      FDiv(edge_function(a, b, p), area)>>

\* calculate_bounding_box(v1, v2, v3)
calculate_bounding_box(v1, v2, v3) ==
    [min_x |-> AsI32(FFloor(FMin(FMin(v1.x, v2.x), v3.x))),
     min_y |-> AsI32(FFloor(FMin(FMin(v1.y, v2.y), v3.y))),
     max_x |-> AsI32(FCeil(FMax(FMax(v1.x, v2.x), v3.x))),
     max_y |-> AsI32(FCeil(FMax(FMax(v1.y, v2.y), v3.y)))]

\* the center of pixel (x, y)
PixelCenter(x, y) == Vec3(Rat(2 * x + 1, 2), Rat(2 * y + 1, 2), Fin(0))

\* the inside test: every weight in [0, 1]
InsideNotOutside(w) ==
    \A i \in 1..3 : ~(FLt(w[i], Fin(0)) \/ FGt(w[i], Fin(1)))
Inside(w) ==
    /\ FGe(w[1], Fin(0)) /\ FLe(w[1], Fin(1))
    /\ FGe(w[2], Fin(0)) /\ FLe(w[2], Fin(1))
    /\ FGe(w[3], Fin(0)) /\ FLe(w[3], Fin(1))

TriFragment(x, y, w, a, b, c) ==
    [x |-> x, y |-> y,
     depth |-> FAdd(FAdd(FMul(a.z, w[1]), FMul(b.z, w[2])), FMul(c.z, w[3])),
     w1 |-> w[1], w2 |-> w[2], w3 |-> w[3]]

\* triangle(v1, v2, v3): the fragments in the order the loops push them
triangle(v1, v2, v3) ==
    LET bb == calculate_bounding_box(v1, v2, v3)
        triangle_area == edge_function(v1, v2, v3)
        nx == bb.max_x - bb.min_x + 1
        ny == bb.max_y - bb.min_y + 1
        px(i) == bb.min_x + ((i - 1) % nx)
        py(i) == bb.min_y + ((i - 1) \div nx)
        W(i) == barycentric_coordinates(PixelCenter(px(i), py(i)), v1, v2, v3, triangle_area)
        all == [i \in 1..(nx * ny) |->
                   [x |-> px(i), y |-> py(i), w |-> W(i)]]
        kept == SelectSeq(all, LAMBDA f : Inside(f.w))
    IN  [i \in 1..Len(kept) |-> TriFragment(kept[i].x, kept[i].y, kept[i].w, v1, v2, v3)]

TriInit(a, b, c) ==
    /\ t_v1 = a
    /\ t_v2 = b
    /\ t_v3 = c
    /\ t_pc = "entry"
    /\ t_frags = <<>>

TriIdle == TriInit(NoVec, NoVec, NoVec)

Rasterize ==
    /\ t_pc = "entry"
    /\ t_frags' = triangle(t_v1, t_v2, t_v3)
    /\ t_pc' = "done"
    /\ UNCHANGED <<t_v1, t_v2, t_v3>>

----------------------------------------------------------------------------
(* vertex_shader(vertex, uniforms).  The model matrix is its upper-left     *)
(* 3x3 block (no translation); the projection, view and viewport matrices  *)
(* are the identity, so w is 1 and the screen position is the model block  *)
(* applied to the position.  A matrix is a tuple of three rows of f32.     *)

\* the rows the model matrix block is built from: axes, a scaled axis, a
\* sheared axis and the zero row
MatRows == {<<Fin(1), Fin(0), Fin(0)>>, <<Fin(0), Fin(1), Fin(0)>>, <<Fin(0), Fin(0), Fin(1)>>,
            <<Fin(2), Fin(0), Fin(0)>>, <<Fin(1), Fin(1), Fin(0)>>, <<Fin(0), Fin(0), Fin(0)>>}
ModelMats == {<<r1, r2, r3>> : r1 \in MatRows, r2 \in MatRows, r3 \in MatRows}

\* the normals, elevations and colors the vertices passed in carry
NormalVals == {Vec3(Fin(0), Fin(1), Fin(0)), Vec3(Fin(1), Fin(2), Fin(3))}
ElevationVals == {NEG_INFINITY, Fin(-1), Rat(-1, 4), Fin(0), Rat(1, 4), Rat(1, 2), Fin(1),
                  INFINITY, NAN}
VertexColors == {Color(0, 0, 0), Color(255, 255, 255)}

\* struct Vertex
Vertex(position, normal, color, transformed_position, transformed_normal, elevation) ==
    [position |-> position, normal |-> normal, tex_coords |-> <<Fin(0), Fin(0)>>,
     color |-> color, transformed_position |-> transformed_position,
     transformed_normal |-> transformed_normal, elevation |-> elevation]

\* the color update_color_based_on_elevation assigns
ElevationColor(elevation) ==
    IF FLt(elevation, Fin(0)) THEN Color(0, 105, 148)
    ELSE IF FLt(elevation, Rat(1, 2)) THEN Color(34, 139, 34)
    ELSE Color(139, 69, 19)

\* Vertex::update_color_based_on_elevation, as a function of the vertex
update_color_keeping(v) == v
update_color_based_on_elevation(v) == [v EXCEPT !.color = ElevationColor(v.elevation)]

Mat3Identity == <<<<Fin(1), Fin(0), Fin(0)>>, <<Fin(0), Fin(1), Fin(0)>>, <<Fin(0), Fin(0), Fin(1)>>>>
Mat3Zero == <<<<Fin(0), Fin(0), Fin(0)>>, <<Fin(0), Fin(0), Fin(0)>>, <<Fin(0), Fin(0), Fin(0)>>>>

\* Mat3::transpose
transpose(m) == [i \in 1..3 |-> [j \in 1..3 |-> m[j][i]]]

\* a * b - c * d on f32
Det2(a, b, c, d) == FSub(FMul(a, b), FMul(c, d))

\* Mat3::try_inverse: None when the determinant is zero, else the adjugate
\* divided by the determinant
try_inverse(m) ==
    LET minor_m12_m23 == Det2(m[2][2], m[3][3], m[3][2], m[2][3])
        minor_m11_m23 == Det2(m[2][1], m[3][3], m[3][1], m[2][3])
        minor_m11_m22 == Det2(m[2][1], m[3][2], m[3][1], m[2][2])
        determinant == FAdd(FSub(FMul(m[1][1], minor_m12_m23), FMul(m[1][2], minor_m11_m23)),
                            FMul(m[1][3], minor_m11_m22))
    IN  IF determinant = Fin(0)
        THEN [some |-> FALSE, val |-> m]
        ELSE [some |-> TRUE,
              val |-> <<<<FDiv(minor_m12_m23, determinant),
                          FDiv(Det2(m[1][3], m[3][2], m[3][3], m[1][2]), determinant),
                          FDiv(Det2(m[1][2], m[2][3], m[2][2], m[1][3]), determinant)>>,
                        <<FDiv(FNeg(minor_m11_m23), determinant),
                          FDiv(Det2(m[1][1], m[3][3], m[3][1], m[1][3]), determinant),
                          FDiv(Det2(m[1][3], m[2][1], m[2][3], m[1][1]), determinant)>>,
                        <<FDiv(minor_m11_m22, determinant),
                          FDiv(Det2(m[1][2], m[3][1], m[3][2], m[1][1]), determinant),
                          FDiv(Det2(m[1][1], m[2][2], m[2][1], m[1][2]), determinant)>>>>]

\* Option::unwrap_or
unwrap_or(o, default) == IF o.some THEN o.val ELSE default

\* the matrix the normal matrix falls back to
NormalFallbackZero == Mat3Zero
NormalFallback == Mat3Identity

\* matrix * vector
MatVec(m, v) ==
    LET row(i) == FAdd(FAdd(FMul(m[i][1], v.x), FMul(m[i][2], v.y)), FMul(m[i][3], v.z))
    IN  Vec3(row(1), row(2), row(3))

\* vertex_shader(vertex, uniforms), model_mat3 being the block of uniforms.model_matrix
vertex_shader(vertex, model_mat3) ==
    LET screen_position == MatVec(model_mat3, vertex.position)
        normal_matrix == unwrap_or(try_inverse(transpose(model_mat3)), NormalFallback)
        transformed_normal == MatVec(normal_matrix, vertex.normal)
        new_vertex == Vertex(vertex.position, vertex.normal, vertex.color,
                             screen_position, transformed_normal, vertex.elevation)
    IN  update_color_based_on_elevation(new_vertex)

VsInit(v, m) ==
    /\ vs_vertex = v
    /\ vs_model = m
    /\ vs_pc = "entry"
    /\ vs_out = v

\* vertex_shader is not being called
VsIdle ==
    /\ vs_vertex = <<>>
    /\ vs_model = <<>>
    /\ vs_pc = "idle"
    /\ vs_out = <<>>

Shade ==
    /\ vs_pc = "entry"
    /\ vs_out' = vertex_shader(vs_vertex, vs_model)
    /\ vs_pc' = "done"
    /\ UNCHANGED <<vs_vertex, vs_model>>

----------------------------------------------------------------------------
(* Specifications, one per component *)

FbInit ==
    /\ \E w \in 1..MaxCells, h \in 1..MaxCells : w * h <= MaxCells /\ FbNew(w, h)
    /\ CamIdle /\ ColIdle /\ LineIdle /\ TriIdle /\ VsIdle /\ HistIdle

FbNext ==
    \/ Clear /\ UNCHANGED <<cam_vars, col_vars, line_vars, tri_vars, vs_vars, hist_vars>>
    \/ \E x \in 0..width, y \in 0..height, depth \in DepthVals :
          Point(x, y, depth) /\ UNCHANGED <<cam_vars, col_vars, line_vars, tri_vars, vs_vars, hist_vars>>
    \/ \E color \in ColorVals :
          SetBackgroundColor(color) /\ UNCHANGED <<cam_vars, col_vars, line_vars, tri_vars, vs_vars, hist_vars>>
    \/ \E color \in ColorVals :
          SetCurrentColor(color) /\ UNCHANGED <<cam_vars, col_vars, line_vars, tri_vars, vs_vars, hist_vars>>

SpecFramebuffer == FbInit /\ [][FbNext]_vars

CamInit ==
    /\ \E e \in CamVecs, c \in CamVecs, u \in UpVecs : CameraNew(e, c, u)
    /\ FbIdle /\ ColIdle /\ LineIdle /\ TriIdle /\ VsIdle /\ HistIdle

CamNext ==
    \/ \E e \in CamVecs : Orbit(e) /\ UNCHANGED <<fb_vars, col_vars, line_vars, tri_vars, vs_vars, hist_vars>>
    \/ \E e \in CamVecs : Zoom(e) /\ UNCHANGED <<fb_vars, col_vars, line_vars, tri_vars, vs_vars, hist_vars>>
    \/ \E c \in CamVecs : MoveCenter(c) /\ UNCHANGED <<fb_vars, col_vars, line_vars, tri_vars, vs_vars, hist_vars>>
    \/ CheckIfChanged /\ UNCHANGED <<fb_vars, col_vars, line_vars, tri_vars, vs_vars, hist_vars>>

SpecCamera == CamInit /\ [][CamNext]_vars

ColorInit ==
    /\ \E a \in Colors, b \in Colors : ColInit(a, b)
    /\ FbIdle /\ CamIdle /\ LineIdle /\ TriIdle /\ VsIdle /\ HistIdle

ColorNext ==
    \/ DoAdd /\ UNCHANGED <<fb_vars, cam_vars, line_vars, tri_vars, vs_vars, hist_vars>>
    \/ DoBlendAdd /\ UNCHANGED <<fb_vars, cam_vars, line_vars, tri_vars, vs_vars, hist_vars>>
    \/ \E t \in TVals : DoLerp(t) /\ UNCHANGED <<fb_vars, cam_vars, line_vars, tri_vars, vs_vars, hist_vars>>
    \/ \E scalar \in SVals : DoMul(scalar) /\ UNCHANGED <<fb_vars, cam_vars, line_vars, tri_vars, vs_vars, hist_vars>>
    \/ DoBlendNormal /\ UNCHANGED <<fb_vars, cam_vars, line_vars, tri_vars, vs_vars, hist_vars>>
    \/ DoBlendMultiply /\ UNCHANGED <<fb_vars, cam_vars, line_vars, tri_vars, vs_vars, hist_vars>>

SpecColor == ColorInit /\ [][ColorNext]_vars

LineSpecInit ==
    /\ \E a \in LineVerts, b \in LineVerts : LineInit(a, b)
    /\ FbIdle /\ CamIdle /\ ColIdle /\ TriIdle /\ VsIdle /\ HistIdle

LineNext ==
    \/ LineEnter /\ UNCHANGED <<fb_vars, cam_vars, col_vars, tri_vars, vs_vars, hist_vars>>
    \/ LineStep /\ UNCHANGED <<fb_vars, cam_vars, col_vars, tri_vars, vs_vars, hist_vars>>

SpecLine == LineSpecInit /\ [][LineNext]_vars

\* line() between vertices at integer positions; the loop is sequential code
\* that keeps running, so a step that is possible is eventually taken
LineIntVerts == {v \in LineVerts : v.x.d = 1 /\ v.y.d = 1}

LineIntInit ==
    /\ \E a \in LineIntVerts, b \in LineIntVerts : LineInit(a, b)
    /\ FbIdle /\ CamIdle /\ ColIdle /\ TriIdle /\ VsIdle /\ HistIdle

SpecLineFair == LineIntInit /\ [][LineNext]_vars /\ WF_vars(LineNext)

TriSpecInit ==
    /\ \E ax \in TriCoords, ay \in TriCoords, bx \in TriCoords, by \in TriCoords,
          cx \in TriCoords, cy \in TriCoords, z \in TriDepths :
          TriInit(Vec3(ax, ay, z[1]), Vec3(bx, by, z[2]), Vec3(cx, cy, z[3]))
    /\ FbIdle /\ CamIdle /\ ColIdle /\ LineIdle /\ VsIdle /\ HistIdle

TriNext == Rasterize /\ UNCHANGED <<fb_vars, cam_vars, col_vars, line_vars, vs_vars, hist_vars>>

SpecTriangle == TriSpecInit /\ [][TriNext]_vars

\* triangles whose three vertices carry three different depths, on a smaller
\* grid (every order of the three vertices is rasterized again per triangle)
MaxTriOrder == 3

TriOrderCoords == {Fin(i) : i \in 0..MaxTriOrder}

TriOrderInit ==
    /\ \E ax \in TriOrderCoords, ay \in TriOrderCoords, bx \in TriOrderCoords,
          by \in TriOrderCoords, cx \in TriOrderCoords, cy \in TriOrderCoords :
          TriInit(Vec3(ax, ay, Fin(0)), Vec3(bx, by, Fin(1)), Vec3(cx, cy, Fin(2)))
    /\ FbIdle /\ CamIdle /\ ColIdle /\ LineIdle /\ VsIdle /\ HistIdle

SpecTriangleOrder == TriOrderInit /\ [][TriNext]_vars

\* the vertices passed in: Vertex::new with a position of (1, 2, 3), and a color
\* the caller may have assigned
ShaderInit ==
    /\ \E n \in NormalVals, e \in ElevationVals, c \in VertexColors, m \in ModelMats :
          LET position == Vec3(Fin(1), Fin(2), Fin(3))
          IN  VsInit(Vertex(position, n, c, position, n, e), m)
    /\ FbIdle /\ CamIdle /\ ColIdle /\ LineIdle /\ TriIdle /\ HistIdle

ShaderNext == Shade /\ UNCHANGED <<fb_vars, cam_vars, col_vars, line_vars, tri_vars, hist_vars>>

SpecShader == ShaderInit /\ [][ShaderNext]_vars

----------------------------------------------------------------------------
(* Framebuffer properties *)

\* the cell of pixel (x, y)
Cell(x, y) == y * width + x

\* the cells other than i keep their color and depth in this step
OthersKept(i) ==
    \A j \in DOMAIN buffer : j # i => buffer'[j] = buffer[j] /\ zbuffer'[j] = zbuffer[j]

\* C1: point(x, y, depth) on an in-range pixel writes the current draw color and
\* stores the new depth if and only if the new depth is strictly less than the
\* depth stored at that pixel; otherwise the pixel's color and depth are left
\* unchanged; in every case no other pixel's color or depth changes.
C1_PointDepthTest ==
    [][(call'.op = "point" /\ nops' = nops + 1 /\ call'.x < width /\ call'.y < height) =>
          LET i == Cell(call'.x, call'.y)
              d == call'.depth
          IN  /\ IF FLt(d, zbuffer[i])
                 THEN buffer'[i] = current_color /\ zbuffer'[i] = d
                 ELSE buffer'[i] = buffer[i] /\ zbuffer'[i] = zbuffer[i]
              /\ OthersKept(i)]_vars

\* C1 witness: the last call was an in-range point() whose depth equals the
\* stored depth, and the pixel kept the color of the earlier writer.
C1_Witness ==
    /\ call.op = "point" /\ call.x < width /\ call.y < height
    /\ call.depth.k = "fin"
    /\ zbuffer[Cell(call.x, call.y)] = call.depth
    /\ buffer[Cell(call.x, call.y)] # current_color

\* what clear() leaves behind, and what set_background_color stores
ClearEffect ==
    /\ call'.op = "clear" /\ nops' = nops + 1 =>
          \A i \in DOMAIN buffer :
             zbuffer'[i] = INFINITY /\ buffer'[i] = background_color
    /\ call'.op = "set_background_color" /\ nops' = nops + 1 =>
          background_color' = call'.color
    /\ call'.op # "set_background_color" => background_color' = background_color

\* C2 as stated: after clear() every depth is +infinity and every color is the
\* background color, and the next point() at any in-range coordinate writes the
\* current draw color and its depth, whatever depth it is given.
C2_AnyDepthWrites ==
    [][/\ ClearEffect
       /\ (call.op = "clear" /\ call'.op = "point" /\ nops' = nops + 1
           /\ call'.x < width /\ call'.y < height) =>
             /\ buffer'[Cell(call'.x, call'.y)] = current_color
             /\ zbuffer'[Cell(call'.x, call'.y)] = call'.depth]_vars

\* C2 amended: after clear() every depth is +infinity and every color is the
\* background color most recently set, and the next point() at any in-range
\* coordinate writes the current draw color and its depth when its depth is
\* below +infinity (finite or -infinity); with a depth of +infinity or NaN it
\* leaves the pixel as clear() left it.
C2_ClearThenPoint ==
    [][/\ ClearEffect
       /\ (call.op = "clear" /\ call'.op = "point" /\ nops' = nops + 1
           /\ call'.x < width /\ call'.y < height) =>
             LET i == Cell(call'.x, call'.y)
                 d == call'.depth
             IN  IF d.k = "fin" \/ d = NEG_INFINITY
                 THEN buffer'[i] = current_color /\ zbuffer'[i] = d
                 ELSE buffer'[i] = background_color /\ zbuffer'[i] = INFINITY]_vars

\* C2 witness: a background color was set, clear() ran, and the point() that
\* followed wrote its pixel: every other cell still holds the background color
\* at depth +infinity.
C2_Witness ==
    /\ call.op = "point" /\ call.x < width /\ call.y < height
    /\ nops = 3
    /\ background_color # BLACK
    /\ current_color # background_color
    /\ buffer[Cell(call.x, call.y)] = current_color
    /\ zbuffer[Cell(call.x, call.y)] = call.depth
    /\ Cardinality(DOMAIN buffer) > 1
    /\ \A j \in DOMAIN buffer : j # Cell(call.x, call.y) =>
          buffer[j] = background_color /\ zbuffer[j] = INFINITY

\* C3: point(x, y, depth) with x >= width or y >= height is silently ignored:
\* no error, and the color buffer, the depth buffer, the background color and
\* the current draw color are unchanged (x >= width never lands on the next row).
C3_OutOfRangeIgnored ==
    [][(call'.op = "point" /\ nops' = nops + 1
        /\ (call'.x >= width \/ call'.y >= height)) =>
          /\ ~call'.panicked
          /\ UNCHANGED <<buffer, zbuffer, background_color, current_color>>]_vars

\* C3 witness: the last call was point(width, y, depth) with a row below y, and
\* its depth would have passed the depth test of the first pixel of that row.
C3_Witness ==
    /\ call.op = "point" /\ call.x = width /\ call.y + 1 < height
    /\ ~call.panicked
    /\ FLt(call.depth, zbuffer[Cell(0, call.y + 1)])

----------------------------------------------------------------------------
(* Framebuffer with the calls recorded: new() and clear() start the record  *)
(* over, every in-range point() is added to it with the cell it addresses, *)
(* its depth and the draw color that was current.                          *)

MaxHistCells == 2

\* the record after the step that made the call call'
HistRecord ==
    fb_hist' =
       IF call'.op = "clear" THEN [base |-> background_color, calls |-> <<>>]
       ELSE IF call'.op = "point" /\ call'.x < width /\ call'.y < height
       THEN [fb_hist EXCEPT !.calls =
                Append(@, [cell |-> Cell(call'.x, call'.y), depth |-> call'.depth,
                           color |-> current_color])]
       ELSE fb_hist

FbHistInit ==
    /\ \E w \in 1..MaxHistCells, h \in 1..MaxHistCells : w * h <= MaxHistCells /\ FbNew(w, h)
    /\ HistIdle
    /\ CamIdle /\ ColIdle /\ LineIdle /\ TriIdle /\ VsIdle

\* the calls a renderer makes on pixels of the window
FbHistNext ==
    \/ Clear /\ HistRecord /\ UNCHANGED <<cam_vars, col_vars, line_vars, tri_vars, vs_vars>>
    \/ \E x \in 0..(width - 1), y \in 0..(height - 1), depth \in DepthVals :
          Point(x, y, depth) /\ HistRecord
          /\ UNCHANGED <<cam_vars, col_vars, line_vars, tri_vars, vs_vars>>
    \/ \E color \in ColorVals :
          SetBackgroundColor(color) /\ HistRecord
          /\ UNCHANGED <<cam_vars, col_vars, line_vars, tri_vars, vs_vars>>
    \/ \E color \in ColorVals :
          SetCurrentColor(color) /\ HistRecord
          /\ UNCHANGED <<cam_vars, col_vars, line_vars, tri_vars, vs_vars>>

SpecFbHistory == FbHistInit /\ [][FbHistNext]_vars

\* the positions in the record of the calls made to cell i with a depth that
\* is a number (not NaN)
CallsTo(i) ==
    {k \in 1..Len(fb_hist.calls) : fb_hist.calls[k].cell = i /\ fb_hist.calls[k].depth.k # "nan"}

\* the least depth among the calls at positions K, +infinity if K is empty
MinDepth(K) ==
    IF K = {} THEN INFINITY
    ELSE LET k == CHOOSE m \in K : \A j \in K : FLe(fb_hist.calls[m].depth, fb_hist.calls[j].depth)
         IN  fb_hist.calls[k].depth

\* the earliest call among those at positions K whose depth is the least
EarliestMin(K) ==
    LET M == {k \in K : fb_hist.calls[k].depth = MinDepth(K)}
    IN  fb_hist.calls[CHOOSE m \in M : \A j \in M : m <= j]

\* C18 as stated: the depth stored at each pixel equals the minimum depth of
\* the point calls made to that pixel since the clear (+infinity if there
\* were none), and the stored color is the draw color that was current at the
\* earliest call attaining that minimum.
C18_EarliestMinColor ==
    \A i \in DOMAIN buffer :
       /\ zbuffer[i] = MinDepth(CallsTo(i))
       /\ CallsTo(i) # {} => buffer[i] = EarliestMin(CallsTo(i)).color

\* C18 amended: the depth stored at each pixel equals the minimum depth of the
\* point calls made to that pixel since the last new() or clear(), NaN depths
\* ignored (+infinity if there were none), so it never increases; when that
\* minimum is below +infinity the stored color is the draw color that was
\* current at the earliest call attaining it (on a tie the first writer is
\* kept), and when it is +infinity the pixel still has the color new() or
\* clear() gave it.
C18_MinDepthFirstWriter ==
    \A i \in DOMAIN buffer :
       /\ zbuffer[i] = MinDepth(CallsTo(i))
       /\ buffer[i] = IF FLt(MinDepth(CallsTo(i)), INFINITY)
                      THEN EarliestMin(CallsTo(i)).color
                      ELSE fb_hist.base

\* C18 witness: two calls were made to one pixel with the same finite depth
\* under different draw colors, and the pixel has the color of the first.
C18_Witness ==
    /\ Len(fb_hist.calls) = 2
    /\ fb_hist.calls[1].cell = fb_hist.calls[2].cell
    /\ fb_hist.calls[1].depth = fb_hist.calls[2].depth
    /\ fb_hist.calls[1].depth.k = "fin"
    /\ fb_hist.calls[1].color # fb_hist.calls[2].color
    /\ buffer[fb_hist.calls[1].cell] = fb_hist.calls[1].color

\* C20: no depth cell ever holds NaN, and a point() whose depth is NaN or
\* +infinity leaves the color buffer and the depth buffer unchanged (nothing
\* stored is above +infinity, so also on a pixel not drawn since clear()).
C20_NoNaNDepth ==
    /\ [](\A i \in DOMAIN zbuffer : zbuffer[i].k # "nan")
    /\ [][(call'.op = "point" /\ nops' = nops + 1
           /\ (call'.depth.k = "nan" \/ call'.depth = INFINITY)) =>
             UNCHANGED <<buffer, zbuffer>>]_vars

\* C20 witness: the last call was an in-range point() with a NaN depth on a
\* pixel that an earlier point() had drawn at a finite depth.
C20_Witness ==
    /\ call.op = "point" /\ call.x < width /\ call.y < height
    /\ call.depth.k = "nan"
    /\ zbuffer[Cell(call.x, call.y)].k = "fin"
    /\ buffer[Cell(call.x, call.y)] = current_color

----------------------------------------------------------------------------
(* Camera properties *)

Mutators == {"orbit", "zoom", "move_center"}

\* the most recent call, and the one before it
LastCall == cam_log[Len(cam_log)]
CallBefore == cam_log[Len(cam_log) - 1]

\* C4: every mutator (orbit, zoom, move_center) leaves has_changed true;
\* check_if_changed returns true when a mutator ran since the previous
\* check_if_changed and leaves the flag false; a check_if_changed that follows
\* a check_if_changed with no mutation in between returns false.
C4_CheckOncePerChange ==
    /\ LastCall.op \in Mutators => has_changed
    /\ LastCall.op = "check_if_changed" => ~has_changed
    /\ Len(cam_log) >= 2 /\ LastCall.op = "check_if_changed" =>
          /\ CallBefore.op \in Mutators => LastCall.ret
          /\ CallBefore.op = "check_if_changed" => ~LastCall.ret

\* C4 witness: a mutator, then a check_if_changed that returned true, then a
\* check_if_changed that returned false.
C4_Witness ==
    /\ Len(cam_log) >= 3
    /\ cam_log[Len(cam_log) - 2].op \in Mutators
    /\ CallBefore = CamCall("check_if_changed", TRUE)
    /\ LastCall = CamCall("check_if_changed", FALSE)
    /\ ~has_changed

\* C16: move_center changes center and leaves eye and up unchanged; orbit and
\* zoom change eye and leave center and up unchanged; check_if_changed changes
\* none of eye, center and up.  (The call a step makes is the last one of the
\* log after the step.)
C16_MutatorFrames ==
    [][LET op == cam_log'[Len(cam_log')].op IN
       /\ op = "move_center" => eye' = eye /\ up' = up
       /\ op \in {"orbit", "zoom"} => center' = center /\ up' = up
       /\ op = "check_if_changed" => eye' = eye /\ center' = center /\ up' = up]_vars

\* C16 witness: orbit, move_center and check_if_changed were called in this
\* order and left the eye and the center apart.
C16_Witness ==
    /\ Len(cam_log) >= 3
    /\ cam_log[Len(cam_log) - 2].op = "orbit"
    /\ cam_log[Len(cam_log) - 1].op = "move_center"
    /\ cam_log[Len(cam_log)].op = "check_if_changed"
    /\ eye # center

\* C21: the change flag starts set and coalesces changes: the first
\* check_if_changed after Camera::new returns true with no mutator called, and
\* every check_if_changed returns true exactly when the call before it was not
\* a check_if_changed; so any number n >= 1 of mutating calls between two
\* checks yields one true, and the check after that one returns false.
C21_FlagCoalesces ==
    /\ LastCall.op = "new" => has_changed
    /\ \A k \in 2..Len(cam_log) :
          cam_log[k].op = "check_if_changed" =>
             cam_log[k].ret = (cam_log[k - 1].op # "check_if_changed")

\* C21 witness: the five most recent calls are a check_if_changed, two
\* mutators, a check_if_changed that returned true and one that returned
\* false.
C21_Witness ==
    /\ Len(cam_log) = 5
    /\ cam_log[1].op = "check_if_changed"
    /\ cam_log[2].op \in Mutators
    /\ cam_log[3].op \in Mutators
    /\ cam_log[4] = CamCall("check_if_changed", TRUE)
    /\ cam_log[5] = CamCall("check_if_changed", FALSE)

----------------------------------------------------------------------------
(* Color properties *)

\* min(255, x + y)
SatSum(x, y) == IF x + y >= 255 THEN 255 ELSE x + y

IsU8(i) == i \in 0..255

\* C5: for all colors a and b, a + b and a.blend_add(b) have min(255, a.channel +
\* b.channel) in each channel: always in [0,255], never wrapped around, and the
\* two operations agree.
C5_SaturatingAdd ==
    /\ col_op.op \in {"add", "blend_add"} =>
          /\ col_out = Color(SatSum(col_a.r, col_b.r), SatSum(col_a.g, col_b.g),
                             SatSum(col_a.b, col_b.b))
          /\ IsU8(col_out.r) /\ IsU8(col_out.g) /\ IsU8(col_out.b)
    /\ col_op.op = "add" => col_out = blend_add(col_a, col_b)
    /\ col_op.op = "blend_add" => col_out = ColorAdd(col_a, col_b)

\* C5 witness: Color(250,0,0) + Color(10,0,0) gave Color(255,0,0).
C5_Witness ==
    /\ col_op.op = "add"
    /\ col_a = Color(250, 0, 0) /\ col_b = Color(10, 0, 0)
    /\ col_out = Color(255, 0, 0)

\* out is a nearest integer to a + (b - a) * n/d and lies between a and b
NearestBetween(out, a, b, n, d) ==
    /\ 2 * Abs(out * d - (a * d + (b - a) * n)) <= d
    /\ (IF a <= b THEN a ELSE b) <= out
    /\ out <= (IF a <= b THEN b ELSE a)

\* C6: a.lerp(b, 0.0) = a and a.lerp(b, 1.0) = b channel for channel; every
\* t < 0 gives a and every t > 1 gives b; for t in between each channel is the
\* nearest integer to a + (b - a) * t and lies between the two input channels.
C6_Lerp ==
    col_op.op = "lerp" =>
       LET t == col_op.t IN
       /\ FLe(t, Fin(0)) => col_out = col_a
       /\ FGe(t, Fin(1)) => col_out = col_b
       /\ FGt(t, Fin(0)) /\ FLt(t, Fin(1)) =>
             /\ NearestBetween(col_out.r, col_a.r, col_b.r, t.n, t.d)
             /\ NearestBetween(col_out.g, col_a.g, col_b.g, t.n, t.d)
             /\ NearestBetween(col_out.b, col_a.b, col_b.b, t.n, t.d)

\* C6 witness: lerp with t = 2.0 between two colors that differ in every
\* channel returned the second color.
C6_Witness ==
    /\ col_op.op = "lerp" /\ col_op.t = Fin(2)
    /\ col_a = Color(0, 250, 10) /\ col_b = Color(250, 10, 255)
    /\ col_out = col_b

\* the channel Color * scalar must give for channel c and the finite scalar
\* n/d: the product clamped to [0,255], then truncated
MulExpected(c, n, d) ==
    IF c * n <= 0 THEN 0
    ELSE IF c * n >= 255 * d THEN 255
    ELSE (c * n) \div d

\* C11: Color * scalar multiplies each channel by the scalar, clamps the product
\* to [0,255] after the multiplication and truncates: every negative scalar
\* (also -infinity) and the scalar 0 give black, a product above 255 (also
\* +infinity) gives 255 in that channel, and no channel wraps around.
C11_ScalarMul ==
    col_op.op = "mul" =>
       LET s == col_op.t IN
       /\ IsU8(col_out.r) /\ IsU8(col_out.g) /\ IsU8(col_out.b)
       /\ s.k = "fin" =>
             col_out = Color(MulExpected(col_a.r, s.n, s.d), MulExpected(col_a.g, s.n, s.d),
                             MulExpected(col_a.b, s.n, s.d))
       /\ FLe(s, Fin(0)) => col_out = Color(0, 0, 0)
       /\ \A ch \in {"r", "g", "b"} :
             FGt(FMul(Fin(col_a[ch]), s), Fin(255)) => col_out[ch] = 255

\* C11 witness: Color(10,250,255) * 1.5 gave Color(15,255,255): the scalar is
\* above 1, one channel is scaled and two are clamped.
C11_Witness ==
    /\ col_op.op = "mul" /\ col_op.t = Rat(3, 2)
    /\ col_a = Color(10, 250, 255)
    /\ col_out = Color(15, 255, 255)

\* C13: base.blend_normal(overlay) returns base when all three overlay
\* channels are 0 and the overlay unchanged in every other case, also when
\* only one or two overlay channels are 0; blending the result again with the
\* same overlay gives the same result.
C13_BlendNormal ==
    col_op.op = "blend_normal" =>
       /\ col_b = Color(0, 0, 0) => col_out = col_a
       /\ col_b # Color(0, 0, 0) => col_out = col_b
       /\ blend_normal(col_out, col_b) = col_out

\* C13 witness: the overlay Color(0,10,0), with two channels at 0, replaced a
\* base that differs from it in every channel.
C13_Witness ==
    /\ col_op.op = "blend_normal"
    /\ col_a = Color(250, 255, 10) /\ col_b = Color(0, 10, 0)
    /\ col_out = Color(0, 10, 0)

\* the smaller of two integers
Min2(x, y) == IF x <= y THEN x ELSE y

\* C14: a.blend_multiply(b) has floor(a.channel * b.channel / 255) in each
\* channel; it is commutative, multiplying by white returns a unchanged,
\* multiplying by black returns black, and no result channel exceeds either
\* input channel.
C14_BlendMultiply ==
    col_op.op = "blend_multiply" =>
       /\ \A ch \in {"r", "g", "b"} :
             /\ col_out[ch] = (col_a[ch] * col_b[ch]) \div 255
             /\ col_out[ch] <= Min2(col_a[ch], col_b[ch])
       /\ col_out = blend_multiply(col_b, col_a)
       /\ col_b = Color(255, 255, 255) => col_out = col_a
       /\ col_b = Color(0, 0, 0) => col_out = Color(0, 0, 0)

\* C14 witness: Color(250,10,255) multiplied by Color(250,250,10) gave
\* Color(245,9,10): two quotients were truncated and one was exact.
C14_Witness ==
    /\ col_op.op = "blend_multiply"
    /\ col_a = Color(250, 10, 255) /\ col_b = Color(250, 250, 10)
    /\ col_out = Color(245, 9, 10)

----------------------------------------------------------------------------
(* line() properties *)

IsInt(f) == f.k = "fin" /\ f.d = 1

\* the fragment depths move in one direction, from start.z towards end.z
DepthsMonotone ==
    \A i \in 1..(Len(l_frags) - 1) :
       IF FLe(l_start.z, l_end.z)
       THEN FLe(l_frags[i].depth, l_frags[i + 1].depth)
       ELSE FGe(l_frags[i].depth, l_frags[i + 1].depth)

\* C8: for a horizontal line between integer endpoints with different x, line()
\* emits exactly one fragment per integer x from the start x to the end x
\* inclusive, all at the endpoints' y, in order from start to end, and the
\* depths move monotonically from the start vertex's depth at the first
\* fragment to the end vertex's depth at the last.
C8_HorizontalLine ==
    (/\ l_pc = "done"
     /\ IsInt(l_start.x) /\ IsInt(l_start.y) /\ IsInt(l_end.x) /\ IsInt(l_end.y)
     /\ l_start.y = l_end.y
     /\ l_start.x # l_end.x) =>
       LET xs == l_start.x.n
           xe == l_end.x.n
           n == Abs(xe - xs) + 1
           s == IF xs < xe THEN 1 ELSE -1
       IN  /\ Len(l_frags) = n
           /\ \A i \in 1..n :
                 l_frags[i].x = xs + s * (i - 1) /\ l_frags[i].y = l_start.y.n
           /\ l_frags[1].depth = l_start.z
           /\ l_frags[n].depth = l_end.z
           /\ DepthsMonotone

\* C8 witness: the line from (0,0) to (3,0) with different endpoint depths is
\* finished and has 4 fragments.
C8_Witness ==
    /\ l_pc = "done"
    /\ l_start.x = Fin(0) /\ l_start.y = Fin(0)
    /\ l_end.x = Fin(3) /\ l_end.y = Fin(0)
    /\ l_start.z # l_end.z
    /\ Len(l_frags) = 4

\* C9: a line whose endpoints have the same transformed x never emits a
\* fragment whose depth is NaN or infinite.
C9_SameXDepthFinite ==
    l_start.x = l_end.x =>
       \A i \in 1..Len(l_frags) : l_frags[i].depth.k = "fin"

\* f32::round of a finite value, and the value with its fraction dropped
RoundF(f) == Round(f.n, f.d)
Trunc(f) == IF f.n >= 0 THEN f.n \div f.d ELSE -((-f.n) \div f.d)

\* the pixel of the first and of the last fragment
FirstPixel == <<l_frags[1].x, l_frags[1].y>>
LastPixel == <<l_frags[Len(l_frags)].x, l_frags[Len(l_frags)].y>>

\* C17 as stated: the first emitted fragment is at (round(start.x),
\* round(start.y)) and the last emitted fragment is at (round(end.x),
\* round(end.y)).
C17_RoundedEndpoints ==
    l_pc = "done" =>
       /\ FirstPixel = <<RoundF(l_start.x), RoundF(l_start.y)>>
       /\ LastPixel = <<RoundF(l_end.x), RoundF(l_end.y)>>

\* C17 amended: line() runs between the truncated (fraction dropped, toward
\* zero) screen-space endpoints and is inclusive of both: the first emitted
\* fragment is at (trunc(start.x), trunc(start.y)) and the last emitted
\* fragment is at (trunc(end.x), trunc(end.y)).
C17_TruncatedEndpoints ==
    /\ l_frags # <<>> => FirstPixel = <<Trunc(l_start.x), Trunc(l_start.y)>>
    /\ l_pc = "done" =>
          /\ l_frags # <<>>
          /\ LastPixel = <<Trunc(l_end.x), Trunc(l_end.y)>>

\* C17 witness: the line from (0.5, 1.5) to (2.5, -0.5) is finished; it starts
\* at pixel (0, 1) and ends at pixel (2, 0), where rounding gives (1, 2) and
\* (3, -1).
C17_Witness ==
    /\ l_pc = "done"
    /\ l_start.x = Rat(1, 2) /\ l_start.y = Rat(3, 2)
    /\ l_end.x = Rat(5, 2) /\ l_end.y = Rat(-1, 2)
    /\ FirstPixel = <<0, 1>>
    /\ LastPixel = <<2, 0>>

\* max(|x1 - x0|, |y1 - y0|) of the integer endpoints
LineSpan ==
    LET ax == Abs(l_end.x.n - l_start.x.n)
        ay == Abs(l_end.y.n - l_start.y.n)
    IN  IF ax >= ay THEN ax ELSE ay

\* the finished line: its length, its end pixel, its steps, no pixel twice
LineComplete ==
    /\ l_pc = "done"
    /\ Len(l_frags) = LineSpan + 1
    /\ LastPixel = <<l_end.x.n, l_end.y.n>>
    /\ \A i \in 1..(Len(l_frags) - 1) :
          /\ Abs(l_frags[i + 1].x - l_frags[i].x) <= 1
          /\ Abs(l_frags[i + 1].y - l_frags[i].y) <= 1
    /\ \A i, j \in 1..Len(l_frags) :
          i # j => l_frags[i].x # l_frags[j].x \/ l_frags[i].y # l_frags[j].y

\* C19: for every pair of integer endpoints the loop of line() terminates: it
\* reaches the end pixel after exactly max(|x1-x0|, |y1-y0|) steps, having
\* emitted max(|x1-x0|, |y1-y0|) + 1 fragments (one when the endpoints
\* coincide); consecutive fragments differ by at most 1 in x and in y, and no
\* pixel is emitted twice.
C19_LoopTerminates == (l_pc = "entry") ~> LineComplete

\* C19 witness: the line from (-1, 3) to (3, 0) is finished with 5 fragments,
\* the second of them one row off the first.
C19_Witness ==
    /\ l_pc = "done"
    /\ l_start.x = Fin(-1) /\ l_start.y = Fin(3)
    /\ l_end.x = Fin(3) /\ l_end.y = Fin(0)
    /\ Len(l_frags) = 5
    /\ l_frags[2].y # l_frags[1].y

----------------------------------------------------------------------------
(* triangle() properties *)

\* twice the cross product (q - p) x (r - p) of points given by their x and y
Cross(px, py, qx, qy, rx, ry) == (qx - px) * (ry - py) - (qy - py) * (rx - px)

\* twice the signed area of the triangle t_v1 t_v2 t_v3 (integer vertices)
Area2 == Cross(t_v1.x.n, t_v1.y.n, t_v2.x.n, t_v2.y.n, t_v3.x.n, t_v3.y.n)

TriIntegerVertices ==
    \A v \in {t_v1, t_v2, t_v3} : IsInt(v.x) /\ IsInt(v.y)

\* the center of pixel (x, y) and vertex r are not on opposite sides of the line
\* through p and q (coordinates doubled, so that the center is integral)
NotOpposite(p, q, r, x, y) ==
    Cross(2 * p.x.n, 2 * p.y.n, 2 * q.x.n, 2 * q.y.n, 2 * x + 1, 2 * y + 1)
    * Cross(2 * p.x.n, 2 * p.y.n, 2 * q.x.n, 2 * q.y.n, 2 * r.x.n, 2 * r.y.n) >= 0

\* the center of pixel (x, y) lies in the closed triangle t_v1 t_v2 t_v3
CenterInTriangle(x, y) ==
    /\ NotOpposite(t_v1, t_v2, t_v3, x, y)
    /\ NotOpposite(t_v2, t_v3, t_v1, x, y)
    /\ NotOpposite(t_v3, t_v1, t_v2, x, y)

SetMin(S) == CHOOSE m \in S : \A e \in S : m <= e
SetMax(S) == CHOOSE m \in S : \A e \in S : m >= e
TriXs == {t_v1.x.n, t_v2.x.n, t_v3.x.n}
TriYs == {t_v1.y.n, t_v2.y.n, t_v3.y.n}

Emitted(x, y) == \E i \in 1..Len(t_frags) : t_frags[i].x = x /\ t_frags[i].y = y

\* C7: for a triangle (non-zero area) with integer screen-space vertices,
\* triangle() emits a fragment for pixel (x, y) of the bounding box if and only
\* if the pixel center (x+0.5, y+0.5) lies inside the closed triangle, which is
\* exactly when the three weights lie in [0,1]; at every emitted pixel the three
\* weights sum to 1, and each pixel is emitted at most once.
C7_TriangleCoverage ==
    (t_pc = "done" /\ TriIntegerVertices /\ Area2 # 0) =>
       /\ \A x \in SetMin(TriXs)..SetMax(TriXs), y \in SetMin(TriYs)..SetMax(TriYs) :
             Emitted(x, y) <=> CenterInTriangle(x, y)
       /\ \A i \in 1..Len(t_frags) :
             LET f == t_frags[i] IN
             /\ f.x \in SetMin(TriXs)..SetMax(TriXs)
             /\ f.y \in SetMin(TriYs)..SetMax(TriYs)
             /\ \A w \in {f.w1, f.w2, f.w3} : FLe(Fin(0), w) /\ FLe(w, Fin(1))
             /\ FAdd(FAdd(f.w1, f.w2), f.w3) = Fin(1)
       /\ \A i, j \in 1..Len(t_frags) :
             i # j => t_frags[i].x # t_frags[j].x \/ t_frags[i].y # t_frags[j].y

\* C7 witness: the triangle (0,0),(4,0),(0,4) is rasterized and has its 10
\* fragments.
C7_Witness ==
    /\ t_pc = "done"
    /\ t_v1.x = Fin(0) /\ t_v1.y = Fin(0)
    /\ t_v2.x = Fin(4) /\ t_v2.y = Fin(0)
    /\ t_v3.x = Fin(0) /\ t_v3.y = Fin(4)
    /\ Len(t_frags) = 10

\* C10: a zero-area triangle (collinear or coincident vertices) emits no
\* fragment at all, and no fragment of any triangle carries a NaN or infinite
\* weight or depth.
C10_ZeroAreaEmitsNothing ==
    /\ (t_pc = "done" /\ TriIntegerVertices /\ Area2 = 0) => t_frags = <<>>
    /\ \A i \in 1..Len(t_frags) :
          \A v \in {t_frags[i].w1, t_frags[i].w2, t_frags[i].w3, t_frags[i].depth} :
             v.k = "fin"

\* C10 witness: three distinct collinear vertices whose segment passes through
\* a pixel center of the bounding box were rasterized, and nothing was emitted.
C10_Witness ==
    /\ t_pc = "done"
    /\ Area2 = 0
    /\ t_v1 # t_v2 /\ t_v2 # t_v3 /\ t_v1 # t_v3
    /\ \E x \in SetMin(TriXs)..SetMax(TriXs), y \in SetMin(TriYs)..SetMax(TriYs) :
          CenterInTriangle(x, y)
    /\ t_frags = <<>>

\* the pixels of a sequence of fragments, each with its depth
PixelDepths(frags) ==
    {[x |-> frags[i].x, y |-> frags[i].y, depth |-> frags[i].depth] : i \in 1..Len(frags)}

\* the orders the three vertices can be passed in
VertexOrders ==
    {<<t_v1, t_v2, t_v3>>, <<t_v1, t_v3, t_v2>>, <<t_v2, t_v1, t_v3>>,
     <<t_v2, t_v3, t_v1>>, <<t_v3, t_v1, t_v2>>, <<t_v3, t_v2, t_v1>>}

\* C22: triangle() called with any permutation of the same three vertices
\* emits fragments for exactly the same set of pixels, with the same
\* interpolated depth at each pixel, whatever the winding: the sign of the
\* area cancels in every weight.
C22_OrderIndependent ==
    t_pc = "done" =>
       \A o \in VertexOrders :
          PixelDepths(triangle(o[1], o[2], o[3])) = PixelDepths(t_frags)

\* C22 witness: a triangle of negative signed area whose vertices carry three
\* different depths was rasterized into fragments of at least three
\* different depths.
C22_Witness ==
    /\ t_pc = "done"
    /\ Area2 < 0
    /\ t_v1.z # t_v2.z /\ t_v2.z # t_v3.z /\ t_v1.z # t_v3.z
    /\ Cardinality({t_frags[i].depth : i \in 1..Len(t_frags)}) >= 3

----------------------------------------------------------------------------
(* vertex_shader() properties *)

OCEAN == Color(0, 105, 148)
LAND == Color(34, 139, 34)
MOUNTAIN == Color(139, 69, 19)

\* C12: vertex_shader recomputes the output vertex's color from its elevation,
\* whatever color the input vertex carried: elevation < 0 gives the ocean
\* color, 0 <= elevation < 0.5 the land color, elevation >= 0.5 the mountain
\* color; the output color is always one of the three, 0 falls in land and
\* 0.5 in mountain, and the elevation itself is passed through.
C12_ElevationColor ==
    vs_pc = "done" =>
       LET el == vs_vertex.elevation IN
       /\ vs_out.elevation = el
       /\ FLt(el, Fin(0)) => vs_out.color = OCEAN
       /\ FLe(Fin(0), el) /\ FLt(el, Rat(1, 2)) => vs_out.color = LAND
       /\ FGe(el, Rat(1, 2)) => vs_out.color = MOUNTAIN
       /\ vs_out.color \in {OCEAN, LAND, MOUNTAIN}
       /\ OCEAN # LAND /\ LAND # MOUNTAIN /\ OCEAN # MOUNTAIN

\* C12 witness: a vertex that came in white with elevation 0 went out with the
\* land color.
C12_Witness ==
    /\ vs_pc = "done"
    /\ vs_vertex.color = Color(255, 255, 255)
    /\ vs_vertex.elevation = Fin(0)
    /\ vs_out.color = LAND

\* the determinant of a matrix of integral entries, by the rule of Sarrus
IntDet(m) ==
    LET a(i, j) == m[i][j].n
    IN  a(1, 1) * a(2, 2) * a(3, 3) + a(1, 2) * a(2, 3) * a(3, 1) + a(1, 3) * a(2, 1) * a(3, 2)
        - a(1, 3) * a(2, 2) * a(3, 1) - a(1, 2) * a(2, 1) * a(3, 3) - a(1, 1) * a(2, 3) * a(3, 2)

IsFiniteVec(v) == v.x.k = "fin" /\ v.y.k = "fin" /\ v.z.k = "fin"

\* C15: when the upper-left 3x3 block of the model matrix is singular,
\* vertex_shader still returns a vertex and its transformed_normal equals the
\* input normal (the normal matrix is the identity); when the block is
\* invertible the normal matrix is the transpose of the block's inverse: the
\* transposed block maps the transformed normal back to the input normal.
C15_NormalMatrixFallback ==
    vs_pc = "done" =>
       /\ IsFiniteVec(vs_out.transformed_normal)
       /\ vs_out.normal = vs_vertex.normal
       /\ IntDet(vs_model) = 0 => vs_out.transformed_normal = vs_vertex.normal
       /\ IntDet(vs_model) # 0 =>
             /\ MatVec(transpose(vs_model), vs_out.transformed_normal) = vs_vertex.normal
             /\ vs_out.transformed_normal =
                   MatVec(transpose(try_inverse(vs_model).val), vs_vertex.normal)

\* C15 witness: a singular block with two equal non-zero rows was passed with
\* the normal (1, 2, 3), and the vertex came back with that normal.
C15_Witness ==
    /\ vs_pc = "done"
    /\ vs_model = <<<<Fin(1), Fin(1), Fin(0)>>, <<Fin(1), Fin(1), Fin(0)>>,
                    <<Fin(0), Fin(0), Fin(1)>>>>
    /\ vs_vertex.normal = Vec3(Fin(1), Fin(2), Fin(3))
    /\ vs_out.transformed_normal = Vec3(Fin(1), Fin(2), Fin(3))

====
